---- MODULE Spec2Model ----
(***************************************************************************)
(* Job lifecycle of the speech-to-text functions (package stt):            *)
(* Ingest writes a status record and starts an engine job, ProcessResults  *)
(* lists the status records and starts one resultWorker per record, which  *)
(* polls the engine, writes the artifacts and the final status.            *)
(***************************************************************************)
EXTENDS Integers, Sequences, FiniteSets, TLC

\* Bounds of the model.
MaxIngest == 2
MaxPasses == 2
NumPaths == 1

IngestIds == 1 .. MaxIngest
PassIds == 1 .. MaxPasses
AllPaths == <<"a.wav", "b.wav", "c.wav">>
Paths == {AllPaths[n] : n \in 1 .. NumPaths}

\* Objects under status/ that are no status record: a copy of a record under a name
\* without the .json suffix, and a .json object that is no JSON.
NoSuffix == {"a.wav.json.bak"}
Broken == {"broken.json"}

\* The names a listing of status/ can return: the record of path p is listed as
\* status/p.json and stands under p here.
Names == Paths \cup NoSuffix \cup Broken

\* apiKey = os.Getenv("FUNCTION_KEY"), and the key parameters of the requests.
apiKey == "function key"
Keys == {apiKey, "another key"}

\* Mutant: every key is accepted.
WrongKey_Never(key) == FALSE

\* r.URL.Query().Get("key") != apiKey
WrongKey(key) == key # apiKey

\* Status constants
StatusProcessing == "processing"
StatusError == "error"
StatusCompleted == "completed"

Terminal == {StatusCompleted, StatusError}

\* FileStatus{}: the zero value of the record type.
FileStatus ==
    [fps |-> 0, job_id |-> "", status |-> "", error |-> "", source |-> "", txt_file |-> ""]

\* DefaultFPS is used when no FPS info is provided.
DefaultFPS == 25

\* Name of the engine operation started by Ingest request i (op.Name()).
OpName(i) == "op" \o ToString(i)

VARIABLES
    store,      \* status records of the ingest bucket, by source path (status/<path>.json)
    source,     \* source audio objects present in the ingest bucket
    results,    \* objects of the result bucket
    jobs,       \* engine operations, by name
    ing,        \* Ingest requests: position, path, local fStatus, response
    pass,       \* ProcessResults invocations: position, listing still to iterate
    wk,         \* resultWorker goroutines, by pass and listed record
    overlap,    \* history: paths whose record two Ingest requests or workers handled at once
    tc,         \* the time stamps of the lines of a transcript: the last two written
    rf,         \* a result list and what transcriptionToSrt / ToPlainText return for it
    rt          \* a FileStatus value, the JSON object written for it, the value read back

vars == <<store, source, results, jobs, ing, pass, wk, overlap, tc, rf, rt>>

Exists(k) == k \in DOMAIN store

\* writer.Close() of an object writer: the object appears whole, or not at all.
Put(st, k, r) == [q \in DOMAIN st \cup {k} |-> IF q = k THEN r ELSE st[q]]

\* Mutant: the delete leaves the object in place.
Remove_Kept(st, k) == st

\* ObjectHandle.Delete
Remove(st, k) == [q \in DOMAIN st \ {k} |-> st[q]]

\* writeStatus: encode and close; on failure the stored object is unchanged.
writeStatus(st, k, fStatus, ok) == IF ok THEN Put(st, k, fStatus) ELSE st

\* key, fps: the request as received; err: the error of LongRunningRecognize;
\* ioerr: the call to the store that failed.
IdleIngest == [pc |-> "idle", key |-> "", fps |-> 0, path |-> "", fStatus |-> FileStatus,
               code |-> "", err |-> "", ioerr |-> ""]
\* sent: how many workers the pass has started for each listed name.
IdlePass ==
    [pc |-> "idle", key |-> "", objs |-> {}, sent |-> [p \in Names |-> 0], err |-> FALSE,
     code |-> ""]
NoWorker == [pc |-> "none", fileStatus |-> FileStatus, res |-> "", out |-> "",
             saved |-> FALSE, deleted |-> FALSE, ioerr |-> FALSE]

\* A time stamp not written yet, and a transcript not begun.
NoStamp == [d |-> 0, nums |-> <<>>, fields |-> <<>>, text |-> ""]
NoTimecode == [pc |-> "none", fps |-> 0, start |-> 0, prev |-> NoStamp, cur |-> NoStamp]

\* The state of the functions and the engine before any request.
InitService ==
    /\ store = <<>>
    /\ source = Paths
    /\ results = {}
    /\ jobs = <<>>
    /\ ing = [i \in IngestIds |-> IdleIngest]
    /\ pass = [h \in PassIds |-> IdlePass]
    /\ wk = [w \in PassIds \X Names |-> NoWorker]
    /\ overlap = {}

\* No result list handed to the reflow functions.
NoReflow == [pc |-> "none", trans |-> <<>>, timestamps |-> FALSE, srt |-> <<>>, txt |-> <<>>]

\* No record written and read back.
NoRoundTrip == [pc |-> "none", written |-> <<>>, doc |-> <<>>, read |-> <<>>]

Init == InitService /\ tc = NoTimecode /\ rf = NoReflow /\ rt = NoRoundTrip

----------------------------------------------------------------------------
\* Ingest

\* An Ingest request is between its existence check and its return.
IngestActive(i) == ing[i].pc \in {"checked", "written", "submitted"}

\* A worker holds a copy of the record: from its read until it returns.
WorkerActive(w) == wk[w].pc \in {"poll", "txt", "srt", "vtt", "complete", "delete"}

\* Some Ingest request or worker is handling the record of path k.
Busy(k) ==
    \/ \E i \in IngestIds : IngestActive(i) /\ ing[i].path = k
    \/ \E h \in PassIds : WorkerActive(<<h, k>>)

Reply(i, code, ioerr) ==
    [ing EXCEPT ![i].pc = "done", ![i].code = code, ![i].ioerr = ioerr]

\* Mutant: only a failing Attrs call counts, a record that is found does not.
InProgress_ErrorOnly(found, attrsOK) == ~attrsOK

\* err != storage.ErrObjectNotExist, for the err of statusFile.Attrs
InProgress(found, attrsOK) == found \/ ~attrsOK

\* Mutant: the frame rate of the request is stored as received.
NormalizeFPS_AsReceived(fps) == fps

\* if reqData.FPS == 0 { reqData.FPS = DefaultFPS }
NormalizeFPS(fps) == IF fps = 0 THEN DefaultFPS ELSE fps

\* Ingest up to the existence check of the status file (Attrs).
\* key, fps: the request; pre: outcome of the steps between the key test and the
\* check; attrsOK: Attrs answered (found or not found).
IngestCheck(i, p, key, fps, pre, attrsOK) ==
    /\ ing[i].pc = "idle"
    /\ i > 1 => ing[i - 1].pc # "idle"
    /\ UNCHANGED <<store, source, results, jobs, pass, wk>>
    /\ LET req == [ing EXCEPT ![i].path = p, ![i].key = key, ![i].fps = fps] IN
       IF WrongKey(key) THEN
           ing' = [req EXCEPT ![i].pc = "done", ![i].code = "Unauthorized"]
       ELSE IF pre = "client" \/ pre = "body" THEN
           ing' = [req EXCEPT ![i].pc = "done", ![i].code = "BadRequest"]
       ELSE IF pre = "storage" \/ pre = "url" THEN
           ing' = [req EXCEPT ![i].pc = "done", ![i].code = "InternalServerError"]
       ELSE IF InProgress(Exists(p), attrsOK) THEN
           ing' = [req EXCEPT ![i].pc = "done", ![i].code = "Conflict",
                              ![i].ioerr = IF attrsOK THEN "" ELSE "attrs"]
       ELSE
           ing' = [req EXCEPT ![i].pc = "checked",
                              ![i].fStatus = [FileStatus EXCEPT !.fps = NormalizeFPS(fps),
                                                                !.status = StatusProcessing,
                                                                !.source = p]]
    /\ overlap' = IF ing'[i].pc = "checked" /\ Busy(p) THEN overlap \cup {p} ELSE overlap
    /\ UNCHANGED <<tc, rf, rt>>

\* The initial writeStatus (empty job_id).
IngestWriteInitial(i, ok) ==
    /\ ing[i].pc = "checked"
    /\ store' = writeStatus(store, ing[i].path, ing[i].fStatus, ok)
    /\ ing' = IF ok THEN [ing EXCEPT ![i].pc = "written"]
              ELSE Reply(i, "Conflict", "initial write")
    /\ UNCHANGED <<source, results, jobs, pass, wk, overlap, tc, rf, rt>>

\* Mutant: every engine error is answered as an internal error.
httpCode_AlwaysInternal(kind) == "InternalServerError"

\* HTTP status for an engine error kind.
httpCode(kind) ==
    CASE kind = "NotFound" -> "NotFound"
      [] kind = "InvalidArgument" -> "BadRequest"
      [] OTHER -> "InternalServerError"

EngineErrors == {"NotFound", "InvalidArgument", "Internal", "not a status error"}

\* Mutant: the job name is not put into the record.
WithJob_Dropped(fStatus, name) == fStatus

\* fStatus.JobID = op.Name()
WithJob(fStatus, name) == [fStatus EXCEPT !.job_id = name]

\* LongRunningRecognize and, when it fails, the best-effort delete of the record.
IngestSubmit(i, outcome, delOK) ==
    /\ ing[i].pc = "written"
    /\ IF outcome = "ok" THEN
           /\ jobs' = Put(jobs, OpName(i), "running")
           /\ ing' = [ing EXCEPT ![i].pc = "submitted", ![i].fStatus = WithJob(@, OpName(i))]
           /\ store' = store
       ELSE
           /\ jobs' = jobs
           /\ store' = IF delOK THEN Remove(store, ing[i].path) ELSE store
           /\ ing' = [Reply(i, httpCode(outcome), IF delOK THEN "" ELSE "delete")
                       EXCEPT ![i].err = outcome]
    /\ UNCHANGED <<source, results, pass, wk, overlap, tc, rf, rt>>

\* Mutant: the result of the rewrite is not looked at.
RewriteCode_AlwaysOK(ok) == "OK"

\* The answer after the rewrite: sendError(..., http.StatusConflict) if it failed.
RewriteCode(ok) == IF ok THEN "OK" ELSE "Conflict"

\* The rewrite of the record with the job_id.
IngestRewrite(i, ok) ==
    /\ ing[i].pc = "submitted"
    /\ store' = writeStatus(store, ing[i].path, ing[i].fStatus, ok)
    /\ ing' = Reply(i, RewriteCode(ok), IF ok THEN "" ELSE "rewrite")
    /\ UNCHANGED <<source, results, jobs, pass, wk, overlap, tc, rf, rt>>

----------------------------------------------------------------------------
\* The engine: a running operation finishes, with or without recognition results.
EngineFinish(name, kind) ==
    /\ name \in DOMAIN jobs
    /\ jobs[name] = "running"
    /\ jobs' = [jobs EXCEPT ![name] = kind]
    /\ UNCHANGED <<store, source, results, ing, pass, wk, overlap, tc, rf, rt>>

----------------------------------------------------------------------------
\* ProcessResults

\* ProcessResults up to the listing of status/ (bucket.Objects).
\* key: the key parameter of the request; pre: outcome of the steps after the key test.
HarvestStart(h, key, pre) ==
    /\ pass[h].pc = "idle"
    /\ h > 1 => pass[h - 1].pc # "idle"
    /\ LET ret(code) == [IdlePass EXCEPT !.pc = "returned", !.key = key, !.code = code] IN
       pass' = [pass EXCEPT ![h] =
          CASE WrongKey(key) -> ret("Unauthorized")
            [] pre = "client" -> ret("BadRequest")
            [] pre = "storage" -> ret("InternalServerError")
            [] OTHER -> [IdlePass EXCEPT !.pc = "listing", !.key = key, !.objs = DOMAIN store]]
    /\ UNCHANGED <<store, source, results, jobs, ing, wk, overlap, tc, rf, rt>>

\* Mutant: the iterator does not move on.
Advance_Stuck(objs, p) == objs

\* objs.Next(): the iterator moves past the object it returned.
Advance(objs, p) == objs \ {p}

\* objs.Next() yields a record: wg.Add(1); go resultWorker(...)
HarvestNext(h, p) ==
    /\ pass[h].pc = "listing"
    /\ ~pass[h].err
    /\ p \in pass[h].objs
    /\ pass' = [pass EXCEPT ![h].objs = Advance(@, p), ![h].sent[p] = @ + 1]
    /\ wk' = [wk EXCEPT ![<<h, p>>].pc = "start"]
    /\ UNCHANGED <<store, source, results, jobs, ing, overlap, tc, rf, rt>>

\* objs.Next() yields iterator.Done: break, and the function ends.
HarvestReturn(h) ==
    /\ pass[h].pc = "listing"
    /\ ~pass[h].err
    /\ pass[h].objs = {}
    /\ pass' = [pass EXCEPT ![h].pc = "returned", ![h].code = "OK"]
    /\ UNCHANGED <<store, source, results, jobs, ing, wk, overlap, tc, rf, rt>>

\* objs.Next() yields an error: it is logged and the loop continues. The iterator
\* keeps the error, every further Next() yields it again: from here on the loop
\* repeats without a change of state, dispatching nothing and never returning.
HarvestNextErr(h) ==
    /\ pass[h].pc = "listing"
    /\ ~pass[h].err
    /\ pass' = [pass EXCEPT ![h].err = TRUE]
    /\ UNCHANGED <<store, source, results, jobs, ing, wk, overlap, tc, rf, rt>>

----------------------------------------------------------------------------
\* fmtDuration. Durations are whole milliseconds.

\* time.Hour, time.Minute and time.Second, in milliseconds.
MsPerHour == 3600000
MsPerMinute == 60000
MsPerSecond == 1000

\* "%02.f" of d.Hours(): the hours as a fraction, printed with no decimals, which
\* rounds to the nearest whole number, a half to the even one.
Hours(d) ==
    LET q == d \div MsPerHour
        r == d % MsPerHour
    IN  IF 2 * r > MsPerHour \/ (2 * r = MsPerHour /\ q % 2 = 1) THEN q + 1 ELSE q

\* int64(d.Minutes()) and int64(d.Seconds())
Minutes(d) == d \div MsPerMinute
Seconds(d) == d \div MsPerSecond

\* The absolute value.
Abs(n) == IF n < 0 THEN 0 - n ELSE n

\* Go's integer a / b and a % b for b # 0: the quotient is truncated towards zero
\* and the remainder has the sign of a.
Quot(a, b) ==
    IF (a < 0) = (b < 0) THEN Abs(a) \div Abs(b) ELSE 0 - (Abs(a) \div Abs(b))
Rem(a, b) == a - b * Quot(a, b)

\* if fps == 0 || fps > 1001 { fps = DefaultFPS }: the frame rate that
\* durationToFrameNumber divides by.
FallbackFPS(fps) == IF fps = 0 \/ fps > 1001 THEN DefaultFPS ELSE fps

\* milisPerFrame := 1000 / int64(fps)
milisPerFrame(fps) == Quot(MsPerSecond, FallbackFPS(fps))

\* fmtDuration panics with an integer divide by zero: in d.Milliseconds() /
\* milisPerFrame, or in the modulo by the fps it was called with.
fmtDurationPanics(fps) == milisPerFrame(fps) = 0 \/ fps = 0

\* durationToFrameNumber, where it does not panic.
durationToFrameNumber(d, fps) == Quot(d, milisPerFrame(fps))

\* The four numbers fmtDuration prints.
TimecodeNumbers(d, fps) ==
    <<Hours(d), Minutes(d) % 60, Seconds(d) % 60, Rem(durationToFrameNumber(d, fps), fps)>>

\* Mutant: the number is printed without padding.
Pad2_Plain(n) == ToString(n)

\* "%02d" (and the "%02" of "%02.f"): at least two characters, a number of one
\* digit padded with a zero; the sign of a negative number counts as a character.
Pad2(n) == IF 0 <= n /\ n < 10 THEN "0" \o ToString(n) ELSE ToString(n)

\* The four fields of the time stamp, as printed.
TimecodeFields(d, fps) == [k \in 1..4 |-> Pad2(TimecodeNumbers(d, fps)[k])]

\* fmt.Sprintf("%02.f:%02d:%02d:%02d", ...)
fmtDuration(d, fps) ==
    LET f == TimecodeFields(d, fps) IN
    f[1] \o ":" \o f[2] \o ":" \o f[3] \o ":" \o f[4]

\* The time stamp of a line whose first word starts at d.
Stamp(d, fps) ==
    [d |-> d, nums |-> TimecodeNumbers(d, fps), fields |-> TimecodeFields(d, fps),
     text |-> fmtDuration(d, fps)]

\* transcriptionToPlainText with timestamps: the stamp of the first line.
FirstLine ==
    /\ tc.pc = "input"
    /\ tc' = IF fmtDurationPanics(tc.fps) THEN [tc EXCEPT !.pc = "panic"]
              ELSE [tc EXCEPT !.pc = "formatted", !.cur = Stamp(tc.start, tc.fps)]
    /\ UNCHANGED <<store, source, results, jobs, ing, pass, wk, overlap, rf, rt>>

\* transcriptionToPlainText with timestamps: a new line is started at a word that
\* starts at d, not before the first word of the line before.
NextLine(d) ==
    /\ tc.pc = "formatted"
    /\ d >= tc.start
    /\ tc' = [tc EXCEPT !.start = d, !.prev = tc.cur, !.cur = Stamp(d, tc.fps)]
    /\ UNCHANGED <<store, source, results, jobs, ing, pass, wk, overlap, rf, rt>>

----------------------------------------------------------------------------
\* resultWorker

\* defer wg.Done(): the goroutine ends; its locals are gone.
\* out, saved, deleted, ioerr: how it ended, whether its last writeStatus and its
\* Delete succeeded, whether a call to the store failed.
Finish(w, out, saved, deleted, ioerr) ==
    [wk EXCEPT ![w] = [pc |-> "done", fileStatus |-> FileStatus, res |-> "",
                       out |-> out, saved |-> saved, deleted |-> deleted, ioerr |-> ioerr]]

Skip(w, out) == Finish(w, out, FALSE, FALSE, FALSE)

\* Mutant: a failed step is stored as completed.
Failed_AsCompleted(fileStatus, msg) ==
    [fileStatus EXCEPT !.status = StatusCompleted, !.error = msg]

\* Mutant: a failed step is stored without its message.
Failed_NoMessage(fileStatus, msg) == [fileStatus EXCEPT !.status = StatusError]

\* The record a worker stores when a step fails.
Failed(fileStatus, msg) == [fileStatus EXCEPT !.status = StatusError, !.error = msg]

\* fileStatus.Status = StatusError; fileStatus.Error = err.Error(); writeStatus(...); return
WorkerFail(h, p, out, msg, ioerr, ok) ==
    /\ store' = writeStatus(store, p, Failed(wk[<<h, p>>].fileStatus, msg), ok)
    /\ wk' = Finish(<<h, p>>, out, ok, FALSE, ioerr \/ ~ok)

\* Mutant: the skip test looks at the job_id only.
Pending_JobOnly(fileStatus) == fileStatus.job_id # ""

\* The worker decides whether the record it decoded is to be handled.
Pending(fileStatus) == ~(fileStatus.job_id = "" \/ fileStatus.status # StatusProcessing)

\* "Not sent to transcription yet or already handled. Take it next time"
SkipReason(fileStatus) ==
    IF fileStatus.job_id = "" THEN "not sent to transcription yet" ELSE "already handled"

\* Mutant: every listed object is taken for a status record.
HasJsonSuffix_Always(name) == TRUE

\* strings.HasSuffix(attrs.Name, ".json")
HasJsonSuffix(name) == name \notin NoSuffix

\* What is stored in an object that is no JSON.
NotJson == [bytes |-> "not json"]

\* json.Unmarshal(statusFileBytes, &fileStatus) returns no error.
Decodable(doc) == "status" \in DOMAIN doc

\* The suffix test; open, read and decode the status file; the skip test.
WorkerRead(h, p, readOK) ==
    /\ wk[<<h, p>>].pc = "start"
    /\ IF ~HasJsonSuffix(p) THEN
           wk' = Skip(<<h, p>>, "not json")
       ELSE IF ~Exists(p) \/ ~readOK \/ ~Decodable(store[p]) THEN
           wk' = Skip(<<h, p>>, "unreadable")
       ELSE IF ~Pending(store[p]) THEN
           wk' = Skip(<<h, p>>, SkipReason(store[p]))
       ELSE
           wk' = [wk EXCEPT ![<<h, p>>].pc = "poll", ![<<h, p>>].fileStatus = store[p]]
    /\ overlap' = IF wk'[<<h, p>>].pc = "poll" /\ Busy(p) THEN overlap \cup {p} ELSE overlap
    /\ UNCHANGED <<tc, rf, rt>>
    /\ UNCHANGED <<store, source, results, jobs, ing, pass>>

\* Mutant: every polled operation counts as done.
NotDone_Never(state) == FALSE

\* !op.Done()
NotDone(state) == state = "running"

\* op.Poll and op.Done
WorkerPoll(h, p, pollOK, ok) ==
    LET w == <<h, p>>
        name == wk[w].fileStatus.job_id IN
    /\ wk[w].pc = "poll"
    /\ IF ~pollOK THEN
           WorkerFail(h, p, "poll failed", "poll error", FALSE, ok)
       ELSE IF NotDone(jobs[name]) THEN
           /\ wk' = Skip(w, "not done")
           /\ store' = store
       ELSE
           /\ wk' = [wk EXCEPT ![w].pc = "txt", ![w].res = jobs[name]]
           /\ store' = store
    /\ UNCHANGED <<source, results, jobs, ing, pass, overlap, tc, rf, rt>>

\* err.Error() of a failed artifact step.
ErrText(o) ==
    CASE o = "write" -> "write error"
      [] o = "close" -> "close error"
      [] OTHER -> "astisub: no subtitles to write"

\* One artifact: Write (or WriteToSRT, WriteToWebVTT), then Close.
\* o: "ok", or the call that failed.
WorkerArtifact(h, p, at, ext, next, o, ok) ==
    LET w == <<h, p>> IN
    /\ wk[w].pc = at
    /\ IF o = "ok" THEN
           /\ results' = results \cup {wk[w].fileStatus.source \o ext}
           /\ wk' = [wk EXCEPT ![w].pc = next]
           /\ store' = store
       ELSE
           /\ results' = results
           /\ WorkerFail(h, p, at \o " failed", ErrText(o), o \in {"write", "close"}, ok)
    /\ UNCHANGED <<source, jobs, ing, pass, overlap, tc, rf, rt>>

\* Mutant: the subtitles are not written between the text and the WebVTT file.
After_SrtLeftOut(at) == IF at = "txt" THEN "vtt" ELSE "complete"

\* What follows an artifact that was written and closed.
After(at) ==
    CASE at = "txt" -> "srt"
      [] at = "srt" -> "vtt"
      [] at = "vtt" -> "complete"

\* transcriptionToPlainText(results, fileStatus.FPS, true) panics: there are results
\* and fmtDuration divides by zero for the frame rate of the record.
TxtPanics(worker) == worker.res = "done" /\ fmtDurationPanics(worker.fileStatus.fps)

\* The panic of a goroutine ends the process: the worker stores nothing, and whoever
\* serves the next request finds the record as it was.
WorkerPanic(h, p) ==
    /\ wk[<<h, p>>].pc = "txt"
    /\ wk' = Skip(<<h, p>>, "panic")
    /\ UNCHANGED <<store, source, results, jobs, ing, pass, overlap, tc, rf, rt>>

\* <source>.txt: transcriptionToPlainText
WorkerTxt(h, p, o, ok) ==
    IF wk[<<h, p>>].pc = "txt" /\ TxtPanics(wk[<<h, p>>]) THEN WorkerPanic(h, p)
    ELSE WorkerArtifact(h, p, "txt", ".txt", After("txt"), o, ok)

\* Subtitles.WriteToSRT and WriteToWebVTT refuse a subtitle set without items
\* (astisub.ErrNoSubtitlesToWrite); transcriptionToSrt returns one for len(trans) == 0.
SubsOutcome(res, o) == IF res = "done, no results" THEN "no subtitles" ELSE o

\* <source>.srt: transcriptionToSrt, WriteToSRT
WorkerSrt(h, p, o, ok) ==
    WorkerArtifact(h, p, "srt", ".srt", After("srt"), SubsOutcome(wk[<<h, p>>].res, o), ok)

\* <source>.vtt: WriteToWebVTT
WorkerVtt(h, p, o, ok) ==
    WorkerArtifact(h, p, "vtt", ".vtt", After("vtt"), SubsOutcome(wk[<<h, p>>].res, o), ok)

\* Mutant: the name of the text file is stored without the new status.
Completed_StatusKept(fileStatus) == [fileStatus EXCEPT !.txt_file = fileStatus.source \o ".txt"]

\* The record a worker stores after the three artifacts.
Completed(fileStatus) ==
    [fileStatus EXCEPT !.status = StatusCompleted, !.txt_file = fileStatus.source \o ".txt"]

\* fileStatus.Status = StatusCompleted; ...; writeStatus(...): its error is dropped.
WorkerComplete(h, p, ok) ==
    LET w == <<h, p>> IN
    /\ wk[w].pc = "complete"
    /\ store' = writeStatus(store, p, Completed(wk[w].fileStatus), ok)
    /\ wk' = [wk EXCEPT ![w].pc = "delete", ![w].fileStatus = Completed(@), ![w].saved = ok,
                       ![w].ioerr = ~ok]
    /\ UNCHANGED <<source, results, jobs, ing, pass, overlap, tc, rf, rt>>

\* ingestBucket.Object(fileStatus.SourceFile).Delete(ctx), best effort.
WorkerDelete(h, p, ok) ==
    LET w == <<h, p>> IN
    /\ wk[w].pc = "delete"
    /\ source' = IF ok THEN source \ {wk[w].fileStatus.source} ELSE source
    /\ wk' = Finish(w, "completed", wk[w].saved, ok, wk[w].ioerr \/ ~ok)
    /\ UNCHANGED <<store, results, jobs, ing, pass, overlap, tc, rf, rt>>

----------------------------------------------------------------------------
\* transcriptionToSrt and transcriptionToPlainText. A text is a sequence of
\* pieces: words, single spaces " ", line ends "\n" and time stamps; a result is
\* the sequence of the words of its first alternative.

\* CharsPerLine limits how many characters approximately we accept as one line
CharsPerLine == 42

\* len(text)
RECURSIVE TextLen(_)
TextLen(text) == IF text = <<>> THEN 0 ELSE Len(Head(text)) + TextLen(Tail(text))

\* strings.TrimSpace
RECURSIVE TrimLeft(_)
TrimLeft(text) ==
    IF text # <<>> /\ Head(text) \in {" ", "\n"} THEN TrimLeft(Tail(text)) ELSE text
RECURSIVE TrimRight(_)
TrimRight(text) ==
    IF text # <<>> /\ text[Len(text)] \in {" ", "\n"}
    THEN TrimRight(SubSeq(text, 1, Len(text) - 1)) ELSE text
TrimSpace(text) == TrimRight(TrimLeft(text))

\* Mutant: the cue ends where it starts.
stringToSubItem_NoEnd(text, start, end) ==
    [StartAt |-> start, EndAt |-> start, Text |-> TrimSpace(text)]

\* stringToSubItem
stringToSubItem(text, start, end) ==
    [StartAt |-> start, EndAt |-> end, Text |-> TrimSpace(text)]

\* The words of all results in the order the two nested loops visit them.
RECURSIVE AllWords(_)
AllWords(trans) == IF trans = <<>> THEN <<>> ELSE Head(trans) \o AllWords(Tail(trans))

\* trans[0].Alternatives[0].Words[0] is an index out of range.
FirstWordPanics(trans) == Len(trans) = 0 \/ Len(trans[1]) = 0

\* Mutant: a line is never full.
LineFull_Never(line) == FALSE

\* if len(line) > CharsPerLine
LineFull(line) == TextLen(line) > CharsPerLine

\* Mutant: the word is appended without the space before it.
AddWord_Glued(line, w) == line \o <<w.Word>>

\* line += " " + w.Word
AddWord(line, w) == line \o <<" ", w.Word>>

\* Mutant: the new line keeps the first word of the line before.
StartNewLine_SameFirstWord(firstWord, w) == firstWord

\* Start a new line: firstWord = w
StartNewLine(firstWord, w) == w

\* The loops of transcriptionToSrt from word k on, and the append after them.
RECURSIVE SrtLoop(_, _, _, _, _, _)
SrtLoop(words, k, line, firstWord, lastEnd, items) ==
    IF k > Len(words) THEN
        Append(items, stringToSubItem(line, firstWord.StartTime, lastEnd))
    ELSE IF LineFull(line) THEN
        SrtLoop(words, k + 1, AddWord(<<>>, words[k]), StartNewLine(firstWord, words[k]),
                words[k].EndTime,
                Append(items, stringToSubItem(line, firstWord.StartTime, lastEnd)))
    ELSE
        SrtLoop(words, k + 1, AddWord(line, words[k]), firstWord,
                words[k].EndTime, items)

\* Mutant: an empty list is handled like any other.
NoResults_Never(trans) == FALSE

\* if len(trans) == 0
NoResults(trans) == Len(trans) = 0

\* transcriptionToSrt: the items of the subtitles it returns, unless it panics.
transcriptionToSrt(trans) ==
    IF NoResults(trans) THEN [panic |-> FALSE, Items |-> <<>>]
    ELSE IF FirstWordPanics(trans) THEN [panic |-> TRUE, Items |-> <<>>]
    ELSE [panic |-> FALSE,
          Items |-> SrtLoop(AllWords(trans), 1, <<>>, trans[1][1], 0, <<>>)]

\* fmt.Sprintf("%s:", fmtDuration(w.StartTime.AsDuration(), fps))
LineStart(w, fps, timestamps) ==
    IF timestamps THEN <<fmtDuration(w.StartTime, fps) \o ":">> ELSE <<>>

\* The loops of transcriptionToPlainText from word k on, and the append of the
\* last line.
RECURSIVE TxtLoop(_, _, _, _, _, _)
TxtLoop(words, k, line, lines, fps, timestamps) ==
    IF k > Len(words) THEN
        IF line # <<>> THEN lines \o TrimSpace(line) \o <<"\n">> ELSE lines
    ELSE IF LineFull(line) THEN
        TxtLoop(words, k + 1, AddWord(LineStart(words[k], fps, timestamps), words[k]),
                lines \o TrimSpace(line) \o <<"\n">>, fps, timestamps)
    ELSE
        TxtLoop(words, k + 1, AddWord(line, words[k]), lines, fps, timestamps)

\* transcriptionToPlainText: the text it returns, unless it panics.
transcriptionToPlainText(trans, fps, timestamps) ==
    IF NoResults(trans) THEN [panic |-> FALSE, text |-> <<>>]
    ELSE IF timestamps /\ (fmtDurationPanics(fps) \/ FirstWordPanics(trans)) THEN
        [panic |-> TRUE, text |-> <<>>]
    ELSE [panic |-> FALSE,
          text |-> TxtLoop(AllWords(trans), 1,
                           IF timestamps THEN LineStart(trans[1][1], fps, TRUE) ELSE <<>>,
                           <<>>, fps, timestamps)]

\* subs := transcriptionToSrt(results)
ToSrt ==
    /\ rf.pc = "input"
    /\ rf.srt = <<>>
    /\ rf' = [rf EXCEPT !.srt = <<transcriptionToSrt(rf.trans)>>]
    /\ UNCHANGED <<store, source, results, jobs, ing, pass, wk, overlap, tc, rt>>

\* transcriptionToPlainText(results, fileStatus.FPS, true), and without time stamps.
ToPlainText ==
    /\ rf.pc = "input"
    /\ rf.txt = <<>>
    /\ rf' = [rf EXCEPT
                 !.txt = <<transcriptionToPlainText(rf.trans, DefaultFPS, rf.timestamps)>>]
    /\ UNCHANGED <<store, source, results, jobs, ing, pass, wk, overlap, tc, rt>>

----------------------------------------------------------------------------
\* The JSON form of a FileStatus: writeStatus encodes, resultWorker decodes.

\* The fields of IngestRequest and the other fields of FileStatus, with their
\* json tags. IngestRequest is embedded: its fields are encoded as members of the
\* same JSON object.
RequestTags ==
    [File |-> "file", Language |-> "lang", EncodingString |-> "encoding",
     SampleRateHertz |-> "sample_rate", FPS |-> "fps"]
StatusTags ==
    [JobID |-> "job_id", Status |-> "status", Error |-> "error", SourceFile |-> "source",
     TxtFile |-> "txt_file", JSONFile |-> "json_file"]

\* The members of the JSON object.
JsonKeys ==
    {RequestTags[f] : f \in DOMAIN RequestTags} \cup {StatusTags[f] : f \in DOMAIN StatusTags}

\* json.NewEncoder(writer).Encode(fStatus): one member per field, under its tag.
Encode(fStatus) ==
    [k \in JsonKeys |->
        IF \E f \in DOMAIN RequestTags : RequestTags[f] = k
        THEN fStatus.IngestRequest[CHOOSE f \in DOMAIN RequestTags : RequestTags[f] = k]
        ELSE fStatus[CHOOSE f \in DOMAIN StatusTags : StatusTags[f] = k]]

\* The zero value of a field.
ZeroValue(f) == IF f \in {"SampleRateHertz", "FPS"} THEN 0 ELSE ""

\* The value json.Unmarshal gives the field with tag k: the member of that
\* name, or the zero value of the fresh FileStatus{} it decodes into.
Member(doc, f, k) == IF k \in DOMAIN doc THEN doc[k] ELSE ZeroValue(f)

\* Mutant: the members of the embedded IngestRequest are not read.
Decode_WithoutRequest(doc) ==
    [IngestRequest |-> [f \in DOMAIN RequestTags |-> ZeroValue(f)]]
        @@ [f \in DOMAIN StatusTags |-> Member(doc, f, StatusTags[f])]

\* fileStatus := FileStatus{}; json.Unmarshal(statusFileBytes, &fileStatus)
Decode(doc) ==
    [IngestRequest |-> [f \in DOMAIN RequestTags |-> Member(doc, f, RequestTags[f])]]
        @@ [f \in DOMAIN StatusTags |-> Member(doc, f, StatusTags[f])]

\* writeStatus(ctx, statusFile, fStatus), on an object nobody else writes.
WriteRecord(ok) ==
    /\ rt.pc = "input"
    /\ rt' = IF ok THEN [rt EXCEPT !.pc = "written", !.doc = Encode(rt.written)]
              ELSE [rt EXCEPT !.pc = "write failed"]
    /\ UNCHANGED <<store, source, results, jobs, ing, pass, wk, overlap, tc, rf>>

\* The read of resultWorker: NewReader, ReadAll and json.Unmarshal.
ReadRecord(ok) ==
    /\ rt.pc = "written"
    /\ rt' = IF ok THEN [rt EXCEPT !.pc = "read", !.read = Decode(rt.doc)]
              ELSE [rt EXCEPT !.pc = "read failed"]
    /\ UNCHANGED <<store, source, results, jobs, ing, pass, wk, overlap, tc, rf>>

----------------------------------------------------------------------------
Pre == {"ok", "client", "body", "storage", "url"}
HarvestPre == {"ok", "client", "storage"}

\* Frame rates of the requests: unset, out of range on either side, in range.
FpsInputs == {-1, 0, 25, 1000, 1001}

\* The request without a frame rate.
FpsUnset == {0}
JobEnds == {"done", "done, no results"}
WriteOutcomes == {"ok", "write", "close"}

IngestStart(i, p, fpsSet) ==
    \E key \in Keys, fps \in fpsSet, pre \in Pre, attrsOK \in BOOLEAN :
        IngestCheck(i, p, key, fps, pre, attrsOK)

IngestStep(i) ==
    \/ \E ok \in BOOLEAN : IngestWriteInitial(i, ok)
    \/ \E outcome \in {"ok"} \cup EngineErrors, delOK \in BOOLEAN : IngestSubmit(i, outcome, delOK)
    \/ \E ok \in BOOLEAN : IngestRewrite(i, ok)

EngineStep == \E name \in DOMAIN jobs, kind \in JobEnds : EngineFinish(name, kind)

HarvestBegin(h) == \E key \in Keys, pre \in HarvestPre : HarvestStart(h, key, pre)

HarvestStep(h) ==
    \/ \E p \in Names : HarvestNext(h, p)
    \/ HarvestNextErr(h)
    \/ HarvestReturn(h)

WorkerBegin(h, p) == \E readOK \in BOOLEAN : WorkerRead(h, p, readOK)

WorkerStep(h, p) ==
    \/ \E pollOK, ok \in BOOLEAN : WorkerPoll(h, p, pollOK, ok)
    \/ \E o \in WriteOutcomes, ok \in BOOLEAN : WorkerTxt(h, p, o, ok)
    \/ \E o \in WriteOutcomes, ok \in BOOLEAN : WorkerSrt(h, p, o, ok)
    \/ \E o \in WriteOutcomes, ok \in BOOLEAN : WorkerVtt(h, p, o, ok)
    \/ \E ok \in BOOLEAN : WorkerComplete(h, p, ok)
    \/ \E ok \in BOOLEAN : WorkerDelete(h, p, ok)

\* Every interleaving of Ingest requests, ProcessResults invocations and workers.
Next ==
    \/ \E i \in IngestIds, p \in Paths : IngestStart(i, p, FpsUnset)
    \/ \E i \in IngestIds : IngestStep(i)
    \/ EngineStep
    \/ \E h \in PassIds : HarvestBegin(h)
    \/ \E h \in PassIds : HarvestStep(h)
    \/ \E h \in PassIds, p \in Paths : WorkerBegin(h, p)
    \/ \E h \in PassIds, p \in Paths : WorkerStep(h, p)

Spec == Init /\ [][Next]_vars

\* The behaviours in which a record is handled by one Ingest request or worker at a
\* time: none checks for, or reads, a record that another one is handling.
NextExclusive ==
    \/ \E i \in IngestIds, p \in Paths : ~Busy(p) /\ IngestStart(i, p, FpsUnset)
    \/ \E i \in IngestIds : IngestStep(i)
    \/ EngineStep
    \/ \E h \in PassIds : HarvestBegin(h)
    \/ \E h \in PassIds : HarvestStep(h)
    \/ \E h \in PassIds, p \in Paths : ~Busy(p) /\ WorkerBegin(h, p)
    \/ \E h \in PassIds, p \in Paths : WorkerStep(h, p)

SpecExclusive == Init /\ [][NextExclusive]_vars

\* The behaviours in which ProcessResults is invoked again only after it returned,
\* and never while an Ingest request is in progress.
NextSequential ==
    \/ \E i \in IngestIds, p \in Paths :
          /\ \A h \in PassIds : pass[h].pc # "listing"
          /\ IngestStart(i, p, FpsUnset)
    \/ \E i \in IngestIds : IngestStep(i)
    \/ EngineStep
    \/ \E h \in PassIds :
          /\ \A g \in PassIds : pass[g].pc # "listing"
          /\ \A i \in IngestIds : ~IngestActive(i)
          /\ HarvestBegin(h)
    \/ \E h \in PassIds : HarvestStep(h)
    \/ \E h \in PassIds, p \in Paths : WorkerBegin(h, p)
    \/ \E h \in PassIds, p \in Paths : WorkerStep(h, p)

SpecSequential == Init /\ [][NextSequential]_vars

\* Ingest requests of every frame rate, and the engine; ProcessResults is not invoked.
NextIngest ==
    \/ \E i \in IngestIds, p \in Paths : IngestStart(i, p, FpsInputs)
    \/ \E i \in IngestIds : IngestStep(i)
    \/ EngineStep

SpecIngest == Init /\ [][NextIngest]_vars

\* Start times of words: around a frame, a second, half an hour, an hour, an hour
\* and a half, and the last half hour before 100 hours.
Durations ==
    {0, 40, 998, 999, 1000, 1800000, 1860000, 3599000, 3600000, 5400000, 5460000,
     358200000, 359999999}

\* Frame rates within 1..1000.
FpsValues == {1, 3, 25, 100, 1000}

\* Frame rates of every kind an int32 can hold: negative, 0, within 1..1000, 1001
\* and above.
FpsAny == {-1001, -3, -1, 0, 25, 1000, 1001, 1002, 2000}

\* fmtDuration alone: the time stamps of the lines of one transcript.
InitTimecode ==
    /\ InitService
    /\ \E fps \in FpsValues, d \in Durations :
          tc = [NoTimecode EXCEPT !.pc = "input", !.fps = fps, !.start = d]
    /\ rf = NoReflow
    /\ rt = NoRoundTrip

NextTimecode ==
    \/ FirstLine
    \/ \E d \in Durations : NextLine(d)

SpecTimecode == InitTimecode /\ [][NextTimecode]_vars

\* fmtDuration alone, for every kind of frame rate.
InitTimecodeAny ==
    /\ InitService
    /\ \E fps \in FpsAny, d \in Durations :
          tc = [NoTimecode EXCEPT !.pc = "input", !.fps = fps, !.start = d]
    /\ rf = NoReflow
    /\ rt = NoRoundTrip

SpecTimecodeAny == InitTimecodeAny /\ [][NextTimecode]_vars

\* A record as a successful Ingest of a.wav left it, with its job.
SubmittedRecord ==
    [FileStatus EXCEPT !.fps = DefaultFPS, !.job_id = OpName(1),
                       !.status = StatusProcessing, !.source = "a.wav"]

\* ProcessResults alone, on a bucket that holds the record of a.wav, a copy of it
\* under a name without the suffix, and an object that is no JSON.
InitHarvest ==
    /\ store = [n \in {"a.wav"} \cup NoSuffix \cup Broken |->
                  IF n \in Broken THEN NotJson ELSE SubmittedRecord]
    /\ source = {"a.wav"}
    /\ results = {}
    /\ jobs = [n \in {OpName(1)} |-> "running"]
    /\ ing = [i \in IngestIds |-> IdleIngest]
    /\ pass = [h \in PassIds |-> IdlePass]
    /\ wk = [w \in PassIds \X Names |-> NoWorker]
    /\ overlap = {}
    /\ tc = NoTimecode
    /\ rf = NoReflow
    /\ rt = NoRoundTrip

NextHarvest ==
    \/ EngineStep
    \/ \E h \in PassIds : HarvestBegin(h)
    \/ \E h \in PassIds : HarvestStep(h)
    \/ \E h \in PassIds, p \in Names : WorkerBegin(h, p)
    \/ \E h \in PassIds, p \in Names : WorkerStep(h, p)

SpecHarvest == InitHarvest /\ [][NextHarvest]_vars

\* The frame rates Ingest stores for the requests of FpsInputs.
FpsStored == {NormalizeFPS(fps) : fps \in FpsInputs}

\* ProcessResults invoked again and again on the record of a successful Ingest, with
\* a store and an engine that answer every call.
InitLive ==
    /\ \E fps \in FpsStored : store = [n \in {"a.wav"} |-> [SubmittedRecord EXCEPT !.fps = fps]]
    /\ source = {"a.wav"}
    /\ results = {}
    /\ jobs = [n \in {OpName(1)} |-> "running"]
    /\ ing = [i \in IngestIds |-> IdleIngest]
    /\ pass = [h \in PassIds |-> IdlePass]
    /\ wk = [w \in PassIds \X Names |-> NoWorker]
    /\ overlap = {}
    /\ tc = NoTimecode
    /\ rf = NoReflow
    /\ rt = NoRoundTrip

\* ProcessResults is invoked with the right key while no other invocation is running.
PassStart(h) ==
    /\ \A g \in PassIds : pass[g].pc # "listing"
    /\ HarvestStart(h, apiKey, "ok")

\* An invocation has returned and its workers have ended: nothing of it is left.
PassOver(h) ==
    /\ pass[h].pc = "returned"
    /\ \A n \in Names : wk[<<h, n>>].pc \in {"none", "done"}
    /\ \A g \in PassIds : g > h => pass[g].pc = "idle"
    /\ pass' = [pass EXCEPT ![h] = IdlePass]
    /\ wk' = [w \in PassIds \X Names |-> IF w[1] = h THEN NoWorker ELSE wk[w]]
    /\ UNCHANGED <<store, source, results, jobs, ing, overlap, tc, rf, rt>>

\* The listing of an invocation without a failure of the store.
PassStep(h) ==
    \/ \E p \in Names : HarvestNext(h, p)
    \/ HarvestReturn(h)

\* A worker without a failure of the store or of the poll.
WorkerRun(h, p) ==
    \/ WorkerRead(h, p, TRUE)
    \/ WorkerPoll(h, p, TRUE, TRUE)
    \/ WorkerTxt(h, p, "ok", TRUE)
    \/ WorkerSrt(h, p, "ok", TRUE)
    \/ WorkerVtt(h, p, "ok", TRUE)
    \/ WorkerComplete(h, p, TRUE)
    \/ WorkerDelete(h, p, TRUE)

NextLive ==
    \/ EngineStep
    \/ \E h \in PassIds : PassStart(h)
    \/ \E h \in PassIds : PassOver(h)
    \/ \E h \in PassIds : PassStep(h)
    \/ \E h \in PassIds, p \in Names : WorkerRun(h, p)

\* The engine finishes its jobs, ProcessResults is invoked again and again, and
\* every handler and goroutine that can take a step takes it.
FairLive ==
    /\ WF_vars(EngineStep)
    /\ WF_vars(\E h \in PassIds : PassStart(h))
    /\ \A h \in PassIds : WF_vars(PassOver(h))
    /\ \A h \in PassIds : WF_vars(PassStep(h))
    /\ \A h \in PassIds, p \in Names : WF_vars(WorkerRun(h, p))

SpecLive == InitLive /\ [][NextLive]_vars /\ FairLive

\* Result lists: up to MaxResults results of up to MaxWords words each.
MaxResults == 2
MaxWords == 2

\* Words of 1, 21, 31 and 43 characters.
WordTexts ==
    {"a", "twentyonecharacters..", "thirtyonecharactersinoneword...",
     "fortythreecharactersinonesinglelongword...."}

\* The word lists of one result, and the lists of results, as texts.
WordLists == UNION {[1..n -> WordTexts] : n \in 0..MaxWords}
ResultLists == UNION {[1..n -> WordLists] : n \in 0..MaxResults}

\* The number of words in the results before result r.
RECURSIVE WordsBefore(_, _)
WordsBefore(shape, r) ==
    IF r <= 1 THEN 0 ELSE WordsBefore(shape, r - 1) + Len(shape[r - 1])

\* The results with the times of their words: one word per second.
WithTimes(shape) ==
    [r \in 1..Len(shape) |->
        [k \in 1..Len(shape[r]) |->
            [Word |-> shape[r][k],
             StartTime |-> (WordsBefore(shape, r) + k - 1) * MsPerSecond,
             EndTime |-> (WordsBefore(shape, r) + k) * MsPerSecond]]]

\* The reflow functions alone.
InitReflow ==
    /\ InitService
    /\ tc = NoTimecode
    /\ rt = NoRoundTrip
    /\ \E shape \in ResultLists, timestamps \in BOOLEAN :
          rf = [NoReflow EXCEPT !.pc = "input", !.trans = WithTimes(shape),
                                !.timestamps = timestamps]

NextReflow == ToSrt \/ ToPlainText

SpecReflow == InitReflow /\ [][NextReflow]_vars

\* FileStatus values: every field zero or not, every status.
FileStatusValues ==
    [IngestRequest : [File : {"", "gs://bucket/a.wav"}, Language : {"", "en-US"},
                      EncodingString : {"", "LINEAR16"}, SampleRateHertz : {0, 16000},
                      FPS : {0, DefaultFPS}],
     JobID : {"", OpName(1)},
     Status : {"", StatusProcessing, StatusError, StatusCompleted},
     Error : {"", "poll error"},
     SourceFile : {"", "a.wav"},
     TxtFile : {"", "a.wav.txt"},
     JSONFile : {"", "a.wav.json"}]

\* One record written and read back.
InitRoundTrip ==
    /\ InitService
    /\ tc = NoTimecode
    /\ rf = NoReflow
    /\ \E fStatus \in FileStatusValues :
          rt = [NoRoundTrip EXCEPT !.pc = "input", !.written = fStatus]

NextRoundTrip ==
    \/ \E ok \in BOOLEAN : WriteRecord(ok)
    \/ \E ok \in BOOLEAN : ReadRecord(ok)

SpecRoundTrip == InitRoundTrip /\ [][NextRoundTrip]_vars

----------------------------------------------------------------------------
\* Properties

Workers == PassIds \X Paths
Artifacts(src) == {src \o ".txt", src \o ".srt", src \o ".vtt"}
HasStatus(k, status) == k \in DOMAIN store /\ store[k].status = status

\* C1, as stated: in every behaviour, overlapping ProcessResults invocations and
\* concurrent Ingest requests included, no write changes the status of a record
\* that is stored as completed or error.
C1_TerminalStatusNeverChanges ==
    [][\A k \in DOMAIN store :
         (store[k].status \in Terminal /\ k \in DOMAIN store')
            => store'[k].status = store[k].status]_vars

\* C1, amended: as long as no two Ingest requests or workers have handled the
\* record of a path at the same time, a record stored as completed or error stays
\* stored and keeps its status.
C1_TerminalStatusStableWithoutOverlap ==
    [][\A k \in DOMAIN store :
         (store[k].status \in Terminal /\ k \notin overlap')
            => (k \in DOMAIN store' /\ store'[k].status = store[k].status)]_vars

\* A record completed by the worker of the first pass, never handled by two at
\* once, was then refused by an Ingest request and skipped by the second pass.
C1_Witness ==
    \E k \in Paths :
        /\ k \notin overlap
        /\ HasStatus(k, StatusCompleted)
        /\ wk[<<1, k>>].out = "completed"
        /\ wk[<<2, k>>].out = "already handled"
        /\ \E i \in IngestIds : ing[i].path = k /\ ing[i].code = "Conflict"

EarlyCodes == {"Unauthorized", "BadRequest", "InternalServerError"}

\* C3: an Ingest request that gets as far as the existence check and whose status
\* file exists, whatever its status, is answered Conflict and ends; it has started
\* no engine job and the record is unchanged.
C3_ExistingRecordConflicts ==
    [][\A i \in IngestIds :
         (/\ ing[i].pc = "idle"
          /\ ing'[i].pc # "idle"
          /\ ing'[i].code \notin EarlyCodes
          /\ ing'[i].path \in DOMAIN store)
            => /\ ing'[i].pc = "done"
               /\ ing'[i].code = "Conflict"
               /\ OpName(i) \notin DOMAIN jobs'
               /\ store' = store]_vars

\* An Ingest request for a path whose record is completed was answered Conflict
\* and started no job.
C3_Witness ==
    \E i \in IngestIds :
        /\ ing[i].pc = "done"
        /\ ing[i].code = "Conflict"
        /\ ing[i].ioerr = ""
        /\ OpName(i) \notin DOMAIN jobs
        /\ HasStatus(ing[i].path, StatusCompleted)
        /\ \A j \in IngestIds \ {i} : ing[j].code = "OK"

\* Ingest requests that started an engine job for path p.
Submitted(p) == {i \in IngestIds : ing[i].path = p /\ OpName(i) \in DOMAIN jobs}

\* C4: of the Ingest requests for one source path, at most one starts an engine job.
C4_OneJobPerPath == \A p \in Paths : Cardinality(Submitted(p)) <= 1

\* C5: when ProcessResults has returned, every resultWorker it dispatched has
\* finished.
C5_ReturnedPassHasNoRunningWorker ==
    \A h \in PassIds :
        pass[h].pc = "returned" => \A p \in Paths : wk[<<h, p>>].pc \in {"none", "done"}

\* A worker got past the poll: the engine answered and the job was done.
PolledDone(w) ==
    wk[w].out \in {"txt failed", "srt failed", "vtt failed", "completed"}

\* C6: a worker that found the engine job done and had no call to the store fail
\* leaves the record completed with txt_file = <source>.txt, the three artifacts
\* in the result bucket and the source object deleted.
C6_DoneJobIsCompleted ==
    \A h \in PassIds, p \in Paths :
        (wk[<<h, p>>].pc = "done" /\ PolledDone(<<h, p>>) /\ ~wk[<<h, p>>].ioerr)
            => /\ HasStatus(p, StatusCompleted)
               /\ store[p].txt_file = p \o ".txt"
               /\ Artifacts(p) \subseteq results
               /\ p \notin source

\* C7: a completed record has its three artifacts in the result bucket, and a
\* worker whose artifact step fails ends there, storing (when that write succeeds)
\* the record it read with status error and the message of the failure.
C7_CompletedHasAllArtifacts ==
    /\ [](\A k \in DOMAIN store :
            store[k].status = StatusCompleted => Artifacts(store[k].source) \subseteq results)
    /\ [][\A w \in Workers :
            (wk[w].pc \in {"txt", "srt", "vtt"} /\ wk'[w].pc = "done")
               => /\ wk'[w].out = wk[w].pc \o " failed"
                  /\ results' = results
                  /\ source' = source
                  /\ IF wk'[w].saved
                     THEN /\ store'[w[2]].status = StatusError
                          /\ store'[w[2]].error \in
                                {"write error", "close error", "astisub: no subtitles to write"}
                          /\ [store'[w[2]] EXCEPT !.status = StatusProcessing, !.error = ""]
                                = wk[w].fileStatus
                     ELSE store' = store]_vars

\* The .srt step of a worker failed after its .txt was written: the record is
\* stored with status error.
C7_Witness ==
    \E w \in Workers :
        /\ wk[w].out = "srt failed"
        /\ wk[w].saved
        /\ HasStatus(w[2], StatusError)
        /\ (w[2] \o ".txt") \in results
        /\ (w[2] \o ".srt") \notin results

\* C8: whenever a worker has deleted the source object, the stored record has
\* status completed.
C8_DeletedOnlyWhenCompleted ==
    \A w \in Workers : wk[w].deleted => HasStatus(w[2], StatusCompleted)

\* Some Ingest request for path k is in progress.
IngestInProgress(k) == \E i \in IngestIds : IngestActive(i) /\ ing[i].path = k

\* C9, as stated: whenever no Ingest request for a path is in progress, a stored
\* record with status processing has a job_id.
C9_ProcessingHasJob ==
    \A k \in DOMAIN store :
        (~IngestInProgress(k) /\ store[k].status = StatusProcessing) => store[k].job_id # ""

\* An Ingest request for path k ended with its rewrite or its delete failing.
IngestLeftover(k) ==
    \E i \in IngestIds : ing[i].path = k /\ ing[i].ioerr \in {"rewrite", "delete"}

\* C9, amended: whenever no Ingest request for a path is in progress and none for
\* that path had its rewrite with the job_id or its delete of the initial record
\* fail, a stored record with status processing has a job_id.
C9_ProcessingHasJobUnlessLeftover ==
    \A k \in DOMAIN store :
        (~IngestInProgress(k) /\ ~IngestLeftover(k) /\ store[k].status = StatusProcessing)
            => store[k].job_id # ""

\* Every Ingest request has ended without a failed store call, and the record
\* of a path is processing under the job of the request that answered OK.
C9_Witness ==
    \E k \in DOMAIN store, i \in IngestIds :
        /\ \A j \in IngestIds : ing[j].pc = "done" /\ ing[j].ioerr = ""
        /\ ing[i].path = k
        /\ ing[i].code = "OK"
        /\ store[k].status = StatusProcessing
        /\ store[k].job_id = OpName(i)

\* C10: a worker whose poll fails ends there, with no artifact written and no
\* source object deleted; the record it stores (when that write succeeds) is the
\* one it read, with status error and the poll error as message.
C10_PollFailureStoresError ==
    [][\A w \in Workers :
         (wk[w].pc = "poll" /\ wk'[w].pc = "done" /\ wk'[w].out = "poll failed")
            => /\ results' = results
               /\ source' = source
               /\ jobs' = jobs
               /\ ~wk'[w].deleted
               /\ IF wk'[w].saved
                  THEN store'[w[2]] = [wk[w].fileStatus EXCEPT !.status = StatusError,
                                                               !.error = "poll error"]
                  ELSE store' = store]_vars

\* A worker's poll failed and the record is stored with the poll error, no
\* artifact written, the source object in place.
C10_Witness ==
    \E w \in Workers :
        /\ wk[w].out = "poll failed"
        /\ wk[w].saved
        /\ HasStatus(w[2], StatusError)
        /\ store[w[2]].error = "poll error"
        /\ results = {}
        /\ w[2] \in source

----------------------------------------------------------------------------
\* C11: once the listing iterator has returned an error other than iterator.Done,
\* the pass has ended and has answered its caller with a failure.
C11_ListingErrorFailsPass ==
    \A h \in PassIds :
        pass[h].err => pass[h].pc = "returned" /\ pass[h].code \notin {"", "OK"}

\* The jobs the engine holds that were submitted by request i.
JobsOf(i) == {n \in DOMAIN jobs : n = OpName(i)}

\* The workers pass h has dispatched.
Dispatched(h) == {w \in Workers : w[1] = h /\ wk[w].pc # "none"}

\* C12: the step that receives an Ingest or ProcessResults request whose key differs
\* from the configured key answers it with Unauthorized and leaves the store, the
\* engine, the results and the workers as they were; such a request never owns a job
\* or a worker.
C12_WrongKeyRejectedBeforeSideEffects ==
    /\ [][/\ \A i \in IngestIds :
              (ing[i].pc = "idle" /\ ing'[i].pc # "idle" /\ ing'[i].key # apiKey)
                  => /\ ing'[i].pc = "done"
                     /\ ing'[i].code = "Unauthorized"
                     /\ UNCHANGED <<store, source, results, jobs, wk>>
          /\ \A h \in PassIds :
              (pass[h].pc = "idle" /\ pass'[h].pc # "idle" /\ pass'[h].key # apiKey)
                  => /\ pass'[h].pc = "returned"
                     /\ pass'[h].code = "Unauthorized"
                     /\ UNCHANGED <<store, source, results, jobs, wk>>]_vars
    /\ [](\A i \in IngestIds :
              (ing[i].pc # "idle" /\ ing[i].key # apiKey)
                  => ing[i].pc = "done" /\ ing[i].code = "Unauthorized" /\ JobsOf(i) = {})
    /\ [](\A h \in PassIds :
              (pass[h].pc # "idle" /\ pass[h].key # apiKey)
                  => pass[h].pc = "returned" /\ pass[h].code = "Unauthorized"
                     /\ Dispatched(h) = {})

\* Both handlers have rejected a wrong key while the store held a record that an
\* accepted pass would have dispatched a worker for.
C12_Witness ==
    \E i \in IngestIds, h \in PassIds :
        /\ ing[i].pc = "done" /\ ing[i].key # apiKey /\ ing[i].code = "Unauthorized"
        /\ pass[h].pc = "returned" /\ pass[h].key # apiKey
        /\ pass[h].code = "Unauthorized"
        /\ ing[i].path \in DOMAIN store

----------------------------------------------------------------------------
\* Request i has ended because LongRunningRecognize failed, and its Delete of the
\* record succeeded.
SubmissionFailedAndDeleted(i) ==
    ing[i].pc = "done" /\ ing[i].err # "" /\ ing[i].ioerr = ""

\* C13: the step in which a submission is rejected by the engine and the record is
\* deleted leaves no record at the path; and a request with the right key that gets
\* as far as an answered existence check for a path without a record is not answered
\* Conflict but goes on to write its own record.
C13_FailedSubmissionLeavesNoRecord ==
    [][\A i \in IngestIds :
         /\ (/\ ing[i].pc = "written"
              /\ ing'[i].pc = "done"
              /\ ing'[i].err # ""
              /\ ing'[i].ioerr = "")
                => ing'[i].path \notin DOMAIN store'
         /\ (/\ ing[i].pc = "idle"
              /\ ing'[i].pc # "idle"
              /\ ing'[i].code \notin EarlyCodes
              /\ ing'[i].ioerr # "attrs"
              /\ ing'[i].path \notin DOMAIN store)
                => /\ ing'[i].pc = "checked"
                   /\ ing'[i].code # "Conflict"]_vars

\* A submission failed and its record was deleted; a later request for the same
\* path, made when no other request or worker was at the path, succeeded.
C13_Witness ==
    \E i, j \in IngestIds :
        /\ i < j
        /\ SubmissionFailedAndDeleted(i)
        /\ ing[j].path = ing[i].path
        /\ ing[j].code = "OK"
        /\ ing[i].path \notin overlap

\* C14: a request whose submission the engine rejected has ended with NotFound for
\* an engine NotFound error, BadRequest for InvalidArgument and InternalServerError
\* for every other error, and never with OK.
C14_EngineErrorCategory ==
    \A i \in IngestIds :
        ing[i].err # ""
            => /\ ing[i].pc = "done"
               /\ ing[i].code # "OK"
               /\ ing[i].err = "NotFound" => ing[i].code = "NotFound"
               /\ ing[i].err = "InvalidArgument" => ing[i].code = "BadRequest"
               /\ ing[i].err \notin {"NotFound", "InvalidArgument"}
                      => ing[i].code = "InternalServerError"

\* One submission was rejected with NotFound and another with an error that is
\* not an engine status error.
C14_Witness ==
    \E i, j \in IngestIds :
        /\ ing[i].err = "NotFound" /\ ing[i].code = "NotFound"
        /\ ing[j].err = "not a status error" /\ ing[j].code = "InternalServerError"

----------------------------------------------------------------------------
\* C16: for a request whose fps is 0 (or absent, which decodes to 0), the record that
\* the initial write stores and the record that the rewrite with the job_id stores
\* both have fps = DefaultFPS.
C16_UnsetFpsStoredAsDefault ==
    [][\A i \in IngestIds :
         (/\ ing'[i].fps = 0
          /\ \/ ing[i].pc = "checked" /\ ing'[i].pc = "written"
             \/ ing[i].pc = "submitted" /\ ing'[i].code = "OK")
            => /\ ing'[i].path \in DOMAIN store'
               /\ store'[ing'[i].path].fps = DefaultFPS]_vars

\* A request with fps 0 succeeded and its record, rewritten with the job_id, has
\* fps = DefaultFPS.
C16_Witness ==
    \E i \in IngestIds :
        /\ ing[i].fps = 0
        /\ ing[i].code = "OK"
        /\ ing[i].path \in DOMAIN store
        /\ store[ing[i].path].job_id = OpName(i)
        /\ store[ing[i].path].fps = DefaultFPS

\* C17: every stored record has an fps within 1..1000.
C17_StoredFpsInRange ==
    \A k \in DOMAIN store : store[k].fps \in 1..1000

----------------------------------------------------------------------------
\* C18: the time stamp of a line has the whole hours of the start time (truncated),
\* the whole minutes modulo 60 and the whole seconds modulo 60; 91 minutes at fps 100
\* is printed "01:31:00:00" and 31 minutes at fps 100 "00:31:00:00".
C18_HoursMinutesSecondsTruncated ==
    tc.pc = "formatted"
        => /\ tc.cur.nums[1] = tc.cur.d \div MsPerHour
           /\ tc.cur.nums[2] = (tc.cur.d \div MsPerMinute) % 60
           /\ tc.cur.nums[3] = (tc.cur.d \div MsPerSecond) % 60
           /\ (tc.fps = 100 /\ tc.cur.d = 91 * MsPerMinute) => tc.cur.text = "01:31:00:00"
           /\ (tc.fps = 100 /\ tc.cur.d = 31 * MsPerMinute) => tc.cur.text = "00:31:00:00"

\* Order of the tuples (HH, MM, SS, FF).
TupleLeq(a, b) ==
    \/ a = b
    \/ \E k \in 1..4 : a[k] < b[k] /\ \A j \in 1..(k - 1) : a[j] = b[j]

\* C19: of two lines of a transcript, the later one starting no earlier than the
\* one before, the time stamp of the earlier is not greater than that of the later,
\* as tuples (HH, MM, SS, FF).
C19_TimecodeMonotone ==
    (tc.pc = "formatted" /\ tc.prev # NoStamp /\ tc.prev.d <= tc.cur.d)
        => TupleLeq(tc.prev.nums, tc.cur.nums)

\* C20, as stated: a time stamp has four fields of exactly two digits each.
C20_FourTwoDigitFields ==
    tc.pc = "formatted"
        => /\ DOMAIN tc.cur.fields = 1..4
           /\ \A k \in 1..4 : Len(tc.cur.fields[k]) = 2

\* C20, amended: a time stamp has four fields joined by colons, each the decimal
\* digits of a number >= 0, padded with a zero to at least two digits; the minutes
\* and the seconds have exactly two digits, the frames exactly two when fps <= 100,
\* the hours exactly two for start times below 99.5 hours.
C20_FourFieldsOfAtLeastTwoDigits ==
    tc.pc = "formatted"
        => /\ DOMAIN tc.cur.fields = 1..4
           /\ \A k \in 1..4 :
                 /\ tc.cur.nums[k] >= 0
                 /\ tc.cur.fields[k] \in {ToString(tc.cur.nums[k]),
                                          "0" \o ToString(tc.cur.nums[k])}
                 /\ Len(tc.cur.fields[k]) >= 2
           /\ Len(tc.cur.fields[2]) = 2
           /\ Len(tc.cur.fields[3]) = 2
           /\ tc.fps <= 100 => Len(tc.cur.fields[4]) = 2
           /\ 2 * tc.cur.d < 199 * MsPerHour => Len(tc.cur.fields[1]) = 2
           /\ tc.cur.text = tc.cur.fields[1] \o ":" \o tc.cur.fields[2] \o ":"
                               \o tc.cur.fields[3] \o ":" \o tc.cur.fields[4]
           /\ Len(tc.cur.text) = 3 + Len(tc.cur.fields[1]) + Len(tc.cur.fields[2])
                                    + Len(tc.cur.fields[3]) + Len(tc.cur.fields[4])

\* At fps 1000 a word that starts at 999 ms is stamped with a frame of three digits.
C20_Witness ==
    /\ tc.pc = "formatted"
    /\ tc.fps = 1000
    /\ tc.cur.d = 999
    /\ tc.cur.text = "00:00:00:999"

----------------------------------------------------------------------------
\* C21: called with fps = 0 or fps > 1000, fmtDuration returns what it returns for
\* the default frame rate.
C21_OutOfRangeFpsFormatsAsDefault ==
    (tc.pc # "input" /\ (tc.fps = 0 \/ tc.fps > 1000))
        => /\ tc.pc = "formatted"
           /\ tc.cur.text = fmtDuration(tc.cur.d, DefaultFPS)

\* C22: fmtDuration returns for every fps and every duration >= 0: it never panics.
C22_fmtDurationTotal == tc.pc # "panic"

----------------------------------------------------------------------------
\* The fields of a text: what stands between its spaces and line ends.
RECURSIVE FieldsFrom(_, _, _)
FieldsFrom(text, cur, out) ==
    IF text = <<>> THEN (IF cur = "" THEN out ELSE Append(out, cur))
    ELSE IF Head(text) \in {" ", "\n"} THEN
        FieldsFrom(Tail(text), "", IF cur = "" THEN out ELSE Append(out, cur))
    ELSE FieldsFrom(Tail(text), cur \o Head(text), out)
Fields(text) == FieldsFrom(text, "", <<>>)

\* The lines of a text: what stands before each line end.
RECURSIVE LinesFrom(_, _, _)
LinesFrom(text, cur, out) ==
    IF text = <<>> THEN (IF cur = <<>> THEN out ELSE Append(out, cur))
    ELSE IF Head(text) = "\n" THEN LinesFrom(Tail(text), <<>>, Append(out, cur))
    ELSE LinesFrom(Tail(text), Append(cur, Head(text)), out)
Lines(text) == LinesFrom(text, <<>>, <<>>)

\* The words of the input, in order.
InputWords == [k \in 1..Len(AllWords(rf.trans)) |-> AllWords(rf.trans)[k].Word]

\* The words of the cues, in cue order.
RECURSIVE CueWords(_)
CueWords(items) ==
    IF items = <<>> THEN <<>> ELSE Fields(Head(items).Text) \o CueWords(Tail(items))

\* The words of the lines, each line without its time stamp.
RECURSIVE LineWords(_, _)
LineWords(lines, timestamps) ==
    IF lines = <<>> THEN <<>>
    ELSE (IF timestamps THEN Tail(Fields(Head(lines))) ELSE Fields(Head(lines)))
             \o LineWords(Tail(lines), timestamps)

\* Every result of the list has a word, and there is a result.
EveryResultHasWords ==
    rf.trans # <<>> /\ \A r \in 1..Len(rf.trans) : rf.trans[r] # <<>>

\* C23: for a list of results that each hold a word, the fields of the cue texts of
\* transcriptionToSrt, in cue order, are the input words in input order; so are the
\* fields of the lines of transcriptionToPlainText without their time stamps.
C23_ReflowKeepsWords ==
    (rf.pc = "input" /\ EveryResultHasWords)
        => /\ rf.srt # <<>>
                => ~rf.srt[1].panic /\ CueWords(rf.srt[1].Items) = InputWords
           /\ rf.txt # <<>>
                => /\ ~rf.txt[1].panic
                   /\ LineWords(Lines(rf.txt[1].text), rf.timestamps) = InputWords

\* Four words were split over two cues and over two stamped lines.
C23_Witness ==
    /\ EveryResultHasWords
    /\ Len(InputWords) = 4
    /\ rf.timestamps
    /\ rf.srt # <<>> /\ Len(rf.srt[1].Items) = 2
    /\ rf.txt # <<>> /\ Len(Lines(rf.txt[1].text)) = 2

\* The length of a text without its last word.
LenWithoutLastWord(text) ==
    IF text = <<>> THEN 0 ELSE TextLen(text) - Len(text[Len(text)])

\* The budget of a line: CharsPerLine, and the width of the time stamp on top of
\* it for a stamped line.
Budget(timestamps) ==
    IF timestamps THEN CharsPerLine + Len(fmtDuration(0, DefaultFPS)) ELSE CharsPerLine

\* C24: every cue text and every line is within its budget once its last word
\* is taken away.
C24_OverBudgetByAtMostOneWord ==
    /\ (rf.srt # <<>> /\ ~rf.srt[1].panic)
          => \A c \in 1..Len(rf.srt[1].Items) :
                LenWithoutLastWord(rf.srt[1].Items[c].Text) <= Budget(FALSE)
    /\ (rf.txt # <<>> /\ ~rf.txt[1].panic)
          => \A l \in 1..Len(Lines(rf.txt[1].text)) :
                LenWithoutLastWord(Lines(rf.txt[1].text)[l]) <= Budget(rf.timestamps)

\* A cue and an unstamped line of two words are longer than CharsPerLine, and a
\* third word started the next cue and the next line.
C24_Witness ==
    /\ ~rf.timestamps
    /\ rf.srt # <<>> /\ Len(rf.srt[1].Items) = 2
    /\ TextLen(rf.srt[1].Items[1].Text) > CharsPerLine
    /\ Len(Fields(rf.srt[1].Items[1].Text)) = 2
    /\ rf.txt # <<>> /\ Len(Lines(rf.txt[1].text)) = 2
    /\ TextLen(Lines(rf.txt[1].text)[1]) > CharsPerLine

\* C25: for a list in which some result has no words, both functions return.
C25_ZeroWordResultsSkipped ==
    (rf.pc = "input" /\ \E r \in 1..Len(rf.trans) : rf.trans[r] = <<>>)
        => /\ rf.srt # <<>> => ~rf.srt[1].panic
           /\ rf.txt # <<>> => ~rf.txt[1].panic

\* C26: for the empty list transcriptionToSrt returns subtitles without items and
\* transcriptionToPlainText the empty text, with and without time stamps.
C26_EmptyInputEmptyOutput ==
    (rf.pc = "input" /\ rf.trans = <<>>)
        => /\ rf.srt # <<>> => rf.srt[1] = [panic |-> FALSE, Items |-> <<>>]
           /\ rf.txt # <<>> => rf.txt[1] = [panic |-> FALSE, text |-> <<>>]

\* Both functions have returned for the empty list, time stamps asked for.
C26_Witness ==
    /\ rf.pc = "input"
    /\ rf.trans = <<>>
    /\ rf.timestamps
    /\ rf.srt # <<>>
    /\ rf.txt # <<>>

----------------------------------------------------------------------------
\* C27: a record read and decoded after writeStatus wrote it, with no write in
\* between, is equal in every field to the record written.
C27_WriteThenReadRoundTrip ==
    rt.pc = "read"
        => /\ rt.read = rt.written
           /\ \A f \in DOMAIN RequestTags :
                 rt.read.IngestRequest[f] = rt.written.IngestRequest[f]
           /\ \A f \in DOMAIN StatusTags : rt.read[f] = rt.written[f]

\* A record with no field at its zero value was written and read back.
C27_Witness ==
    /\ rt.pc = "read"
    /\ \A f \in DOMAIN RequestTags : rt.written.IngestRequest[f] # ZeroValue(f)
    /\ \A f \in DOMAIN StatusTags : rt.written[f] # ZeroValue(f)
    /\ rt.doc["fps"] = DefaultFPS
    /\ rt.read.JobID = OpName(1)

----------------------------------------------------------------------------
\* C28: a worker polls only with a job_id that is not empty, and no step of a
\* worker changes the store while the record at its path has an empty job_id: the
\* record between the initial write of Ingest and its rewrite stays as written.
C28_WorkersLeaveUnsubmittedRecords ==
    [][\A w \in Workers :
         /\ (wk[w].pc = "poll" /\ wk'[w] # wk[w]) => wk[w].fileStatus.job_id # ""
         /\ (/\ wk'[w] # wk[w]
             /\ w[2] \in DOMAIN store
             /\ store[w[2]].job_id = "")
                => store' = store]_vars

----------------------------------------------------------------------------
\* C29: the step of a worker whose poll succeeds for an operation that is still
\* running ends the worker and changes neither the status records nor the result
\* bucket nor the source objects: the record it read is left for the next pass.
C29_NotDoneLeavesEverything ==
    [][\A w \in Workers :
         (/\ wk[w].pc = "poll"
          /\ wk'[w] # wk[w]
          /\ jobs[wk[w].fileStatus.job_id] = "running"
          /\ wk'[w].out # "poll failed")
            => /\ wk'[w].pc = "done"
               /\ wk'[w].out = "not done"
               /\ store' = store
               /\ results' = results
               /\ source' = source]_vars

\* A worker found the job running; the record is still processing with its
\* job_id and the worker of the next pass is polling for the same job.
C29_Witness ==
    \E p \in Paths :
        /\ wk[<<1, p>>].pc = "done"
        /\ wk[<<1, p>>].out = "not done"
        /\ HasStatus(p, StatusProcessing)
        /\ wk[<<2, p>>].pc = "poll"
        /\ wk[<<2, p>>].fileStatus = store[p]
        /\ store[p].job_id \in DOMAIN jobs
        /\ results = {}
        /\ p \in source

SkippedAtRead(h, n) ==
    /\ wk[<<h, n>>].pc = "start"
    /\ wk'[<<h, n>>].pc = "done"
    /\ wk'[<<h, n>>].out \in {"not json", "unreadable"}

C31_MalformedRecordDoesNotStopPass ==
    [][ /\ \A h \in PassIds, n \in Names :
             SkippedAtRead(h, n) =>
                 /\ UNCHANGED <<store, source, results, jobs, pass>>
                 /\ \A m \in Names \ {n} : wk'[<<h, m>>] = wk[<<h, m>>]
        /\ \A n \in (NoSuffix \cup Broken) \cap DOMAIN store :
             n \in DOMAIN store' /\ store'[n] = store[n]
        /\ \A h \in PassIds :
             pass[h].pc = "listing" /\ pass'[h].pc = "returned" =>
                 /\ pass'[h].code = "OK"
                 /\ \A n \in DOMAIN store : pass'[h].sent[n] = 1 ]_vars

\* One pass returned OK; its workers left the two foreign objects and completed the
\* record of a.wav.
C31_Witness ==
    /\ pass[1].pc = "returned" /\ pass[1].code = "OK"
    /\ \A n \in NoSuffix : wk[<<1, n>>].pc = "done" /\ wk[<<1, n>>].out = "not json"
    /\ \A n \in Broken : wk[<<1, n>>].pc = "done" /\ wk[<<1, n>>].out = "unreadable"
    /\ wk[<<1, "a.wav">>].pc = "done" /\ wk[<<1, "a.wav">>].out = "completed"
    /\ store["a.wav"].status = StatusCompleted

\* C32: a worker writes .txt, then .srt, then .vtt: it comes to an artifact only from
\* the one before, written in the same run; nothing but such a step adds an artifact;
\* a worker that ends with a failed step has written nothing in that step and is
\* gone; so a .vtt is never there without its .srt and .txt.
ArtifactSteps == <<"txt", "srt", "vtt", "complete">>

Ext(n) == <<".txt", ".srt", ".vtt">>[n]

WroteArtifact(w, n) ==
    /\ wk[w].pc = ArtifactSteps[n]
    /\ wk'[w].pc = ArtifactSteps[n + 1]
    /\ results' = results \cup {wk[w].fileStatus.source \o Ext(n)}

FailedAtArtifact(w) ==
    /\ wk[w].pc \in {"txt", "srt", "vtt"}
    /\ wk'[w].pc = "done"

C32_ArtifactsInOrder ==
    [][ /\ \A w \in Workers, n \in 1 .. 3 :
             wk'[w].pc = ArtifactSteps[n + 1] /\ wk[w].pc # ArtifactSteps[n + 1]
                 => WroteArtifact(w, n)
        /\ results' # results => \E w \in Workers, n \in 1 .. 3 : WroteArtifact(w, n)
        /\ \A w \in Workers :
             FailedAtArtifact(w) =>
                 /\ results' = results
                 /\ wk'[w].out = wk[w].pc \o " failed"
        /\ \A p \in Paths :
             (p \o ".vtt") \in results' =>
                 (p \o ".srt") \in results' /\ (p \o ".txt") \in results' ]_vars

\* One pass wrote all three; another failed at the .srt after writing the .txt.
C32_Witness ==
    \E p \in Paths :
        /\ {p \o ".txt", p \o ".srt", p \o ".vtt"} \subseteq results
        /\ \E h \in PassIds : wk[<<h, p>>].pc = "done" /\ wk[<<h, p>>].out = "srt failed"

\* C33: in every stored record a non-empty error goes with status error and a
\* non-empty txt_file with status completed.
C33_ErrorAndTxtFileMatchStatus ==
    \A k \in DOMAIN store :
        /\ store[k].error # "" => store[k].status = StatusError
        /\ store[k].txt_file # "" => store[k].status = StatusCompleted

\* A record with its text file, stored after another worker had stored an error.
C33_Witness ==
    \E k \in DOMAIN store :
        /\ store[k].txt_file # ""
        /\ \E h \in PassIds :
             /\ wk[<<h, k>>].pc = "done"
             /\ wk[<<h, k>>].out \in {"txt failed", "srt failed", "vtt failed", "poll failed"}
             /\ wk[<<h, k>>].saved

----------------------------------------------------------------------------
\* C34: for fps in 1..1000 the frame field of a time stamp is
\* floor(elapsed_ms * fps / 1000) mod fps: it lies in 0..fps-1 and is 0 at every
\* whole second.
C34_FrameFieldIsFrameWithinSecond ==
    tc.pc = "formatted"
        => /\ tc.cur.nums[4] = ((tc.cur.d * tc.fps) \div MsPerSecond) % tc.fps
           /\ tc.cur.nums[4] \in 0 .. (tc.fps - 1)
           /\ tc.cur.d % MsPerSecond = 0 => tc.cur.nums[4] = 0

----------------------------------------------------------------------------
\* The length the buffer had when the line was cut off it: a stamped buffer begins
\* with its time stamp, an unstamped one with the space before its first word.
BufferLen(line, timestamps) == IF timestamps THEN TextLen(line) ELSE TextLen(line) + 1

\* The lines that were cut off in the loop: all but the last one.
FlushedLines(text) == SubSeq(Lines(text), 1, Len(Lines(text)) - 1)

\* C35: a line is cut off only when the buffer is longer than 42 characters, and
\* with time stamps only when it is longer than 42 plus the width of a time stamp.
C35_StampedLinesHaveWiderBudget ==
    (rf.txt # <<>> /\ ~rf.txt[1].panic)
        => \A l \in 1..Len(FlushedLines(rf.txt[1].text)) :
              BufferLen(FlushedLines(rf.txt[1].text)[l], rf.timestamps) > Budget(rf.timestamps)

----------------------------------------------------------------------------
\* The number of words in the cues before cue c.
RECURSIVE WordsInCuesBefore(_, _)
WordsInCuesBefore(items, c) ==
    IF c <= 1 THEN 0
    ELSE WordsInCuesBefore(items, c - 1) + Len(Fields(items[c - 1].Text))

\* The input words that make the text of cue c.
FirstWordOf(items, c) == AllWords(rf.trans)[WordsInCuesBefore(items, c) + 1]
LastWordOf(items, c) == AllWords(rf.trans)[WordsInCuesBefore(items, c + 1)]

\* C36: every cue starts at the start time of the first word of its text and ends
\* at the end time of the last word of its text.
C36_CueTimesAreWordTimes ==
    (rf.srt # <<>> /\ ~rf.srt[1].panic)
        => LET items == rf.srt[1].Items IN
           \A c \in 1..Len(items) :
              /\ items[c].StartAt = FirstWordOf(items, c).StartTime
              /\ items[c].EndAt = LastWordOf(items, c).EndTime

\* The first cue holds all words of the first result and one of the second; a
\* second cue follows.
C36_Witness ==
    /\ Len(rf.trans) = 2 /\ Len(rf.trans[1]) = 2 /\ Len(rf.trans[2]) = 2
    /\ rf.srt # <<>> /\ Len(rf.srt[1].Items) = 2
    /\ Len(Fields(rf.srt[1].Items[1].Text)) = 3
    /\ rf.srt[1].Items[1].EndAt = rf.trans[2][1].EndTime
    /\ rf.srt[1].Items[2].StartAt = rf.trans[2][2].StartTime

\* The words of the input start in input order and none starts before the one
\* before it has ended.
TimeOrdered(words) ==
    \A k \in 1..(Len(words) - 1) :
        words[k].StartTime <= words[k + 1].StartTime /\ words[k].EndTime <= words[k + 1].StartTime

\* C37: for time-ordered words the start times of the cues do not decrease from one
\* cue to the next, and a cue starts no earlier than the cue before it ends.
C37_CuesInOrderWithoutOverlap ==
    (rf.srt # <<>> /\ ~rf.srt[1].panic /\ TimeOrdered(AllWords(rf.trans)))
        => LET items == rf.srt[1].Items IN
           \A c \in 1..(Len(items) - 1) :
              /\ items[c].StartAt <= items[c + 1].StartAt
              /\ items[c].EndAt <= items[c + 1].StartAt

\* Four words of 43 characters made four cues, one after the other.
C37_Witness ==
    /\ rf.srt # <<>> /\ Len(rf.srt[1].Items) = 4
    /\ TimeOrdered(AllWords(rf.trans))
    /\ \A c \in 1..3 : rf.srt[1].Items[c].EndAt = rf.srt[1].Items[c + 1].StartAt

\* The texts of the cues.
CueTexts(items) == [c \in 1..Len(items) |-> items[c].Text]

\* C38: without time stamps transcriptionToPlainText returns one line for each cue
\* of transcriptionToSrt on the same results, the line being the text of the cue.
C38_LinesAreCueTexts ==
    (rf.srt # <<>> /\ rf.txt # <<>> /\ ~rf.timestamps)
        => /\ ~rf.srt[1].panic
           /\ ~rf.txt[1].panic
           /\ Lines(rf.txt[1].text) = CueTexts(rf.srt[1].Items)

----------------------------------------------------------------------------
\* C39: with ProcessResults invoked again and again, one invocation after the other,
\* and no failure of the store or of the poll, a record that a successful Ingest
\* stored, of a job that finishes, comes to status completed or error.
SubmittedAndProcessing(p) ==
    p \in DOMAIN store /\ store[p].status = StatusProcessing /\ store[p].job_id # ""

ReachedTerminal(p) == p \in DOMAIN store /\ store[p].status \in Terminal

C39_SubmittedRecordsReachTerminal ==
    \A p \in Paths : SubmittedAndProcessing(p) ~> ReachedTerminal(p)

====
